---- MODULE Spec2Model ----
(***************************************************************************)
(* Model of the daily-transit rule engine of swiss-ephemeris-api           *)
(* (src/app/astro_core/daily_transits.py) as driven by the /daily_transits *)
(* endpoint (src/app/main.py).                                             *)
(*                                                                         *)
(* Angles are fixed-point integers: one unit is 1/10000 of a degree, so    *)
(* that 0.1 degree, the orbs 1.0/2.0/2.5 and the minute tolerance          *)
(* 1.59' = 0.0265 degree are all exact.  Speeds are in units per day.      *)
(* Floating point is modelled at reduced precision, with one rounding     *)
(* grid: a number is an integer count of quarter units; a magnitude below  *)
(* one unit is kept as it is (floats are dense near zero), every other     *)
(* result of an addition or subtraction is rounded to the nearest whole    *)
(* unit, ties to even.  The unit stands for the spacing of the floats near *)
(* 360 (2^-44), a quarter unit for any magnitude below half of it.         *)
(* Optional values (Python None) are sequences of length 0 or 1.  A        *)
(* position map (dict) is the sequence of its entries in insertion order.  *)
(*                                                                         *)
(* Spec is the endpoint's request on coarse positions.  SpecFn calls the   *)
(* module's functions one at a time on fine-grained arguments: call holds  *)
(* the function and its arguments, ret what it returned or raised.         *)
(***************************************************************************)
EXTENDS Integers, Sequences, FiniteSets, TLC

VARIABLES engine, raised, transits, natal, mode, result, call, ret

vars == <<engine, raised, transits, natal, mode, result, call, ret>>

-----------------------------------------------------------------------------
(* Encoding helpers *)

None == <<>>

Some(v) == <<v>>

\* u units of 1/10000 degree, in quarter units
Units(u) == u * 4

\* whole degrees, and degrees with a fraction given in 1/10000 degree
D(whole) == Units(whole * 10000)

Frac(whole, tenThousandths) == Units(whole * 10000 + tenThousandths)

Abs(x) == IF x < 0 THEN -x ELSE x

\* the float nearest to the real x: x itself below one unit, else the nearest
\* whole unit, ties to the even one
fl(x) ==
    IF Abs(x) < Units(1)
    THEN x
    ELSE LET q == x \div Units(1)
             r == x - q * Units(1)
         IN  IF 2 * r < Units(1) THEN q * Units(1)
             ELSE IF 2 * r > Units(1) THEN (q + 1) * Units(1)
             ELSE IF q % 2 = 0 THEN q * Units(1) ELSE (q + 1) * Units(1)

\* Python's x % m on floats, m > 0: the exact remainder of C's fmod, which
\* has the sign of x, plus m (rounded) when it is negative
float_mod(x, m) ==
    LET r == IF x >= 0 THEN x % m ELSE -((-x) % m)
    IN  IF r < 0 THEN fl(r + m) ELSE r

Min(a, b) == IF a <= b THEN a ELSE b

-----------------------------------------------------------------------------
(* RULES: the static rule table *)

TRANSIT_INCLUDED ==
    {"Sun", "Mercury", "Venus", "Mars", "Jupiter",
     "Saturn", "Uranus", "Neptune", "Pluto", "Chiron", "North Node"}

TRANSIT_EXCLUDED == {"Moon", "South Node"}

NATAL_ELIGIBLE ==
    {"Sun", "Moon", "Mercury", "Venus", "Mars", "Jupiter",
     "Saturn", "Uranus", "Neptune", "Pluto", "Chiron", "North Node",
     "Ascendant", "Midheaven", "Part of Fortune"}

\* variant: the quincunx is one degree from the opposition
ASPECTS_DEG_quincunx_179 ==
    << [name |-> "conjunction", angle |-> D(0)],
       [name |-> "sextile",     angle |-> D(60)],
       [name |-> "square",      angle |-> D(90)],
       [name |-> "trine",       angle |-> D(120)],
       [name |-> "opposition",  angle |-> D(180)],
       [name |-> "quincunx",    angle |-> D(179)] >>

\* dict in insertion order: the order find_aspects iterates the aspects in
ASPECTS_DEG ==
    << [name |-> "conjunction", angle |-> D(0)],
       [name |-> "sextile",     angle |-> D(60)],
       [name |-> "square",      angle |-> D(90)],
       [name |-> "trine",       angle |-> D(120)],
       [name |-> "opposition",  angle |-> D(180)],
       [name |-> "quincunx",    angle |-> D(150)] >>

\* variant: Mars has no orb rule
ORB_RULES_without_mars ==
    ("Sun" :> <<D(2), D(1)>>) @@
    ("Venus" :> <<D(2), D(1)>>) @@
    ("Jupiter" :> <<D(2), D(1)>>) @@
    ("Mercury" :> <<Frac(2, 5000), D(1)>>)

\* body -> (applying_orb_deg, separating_orb_deg)
ORB_RULES ==
    ("Sun" :> <<D(2), D(1)>>) @@
    ("Venus" :> <<D(2), D(1)>>) @@
    ("Mars" :> <<D(2), D(1)>>) @@
    ("Jupiter" :> <<D(2), D(1)>>) @@
    ("Mercury" :> <<Frac(2, 5000), D(1)>>)

MINUTE_EXACT_TRANSITS ==
    {"Saturn", "Uranus", "Neptune", "Pluto", "Chiron", "North Node"}

\* 1.59 arcminutes, in hundredths of an arcminute
MINUTE_TOL_ARCMIN == 159

OUTER_NATAL == {"Saturn", "Uranus", "Neptune", "Pluto"}

OUTER_NATAL_ALLOWED_TRANSITS == {"Sun", "Mercury", "Venus", "Mars", "Jupiter"}

MARS_DOMINANCE_DIURNAL_ONLY == TRUE

-----------------------------------------------------------------------------
(* Geometry utilities *)

norm360(x) ==
    LET r == float_mod(x, D(360))
    IN  IF r < 0 THEN fl(r + D(360)) ELSE r

\* norm360 of math_utils.py
math_utils_norm360(x) == float_mod(x, D(360))

\* variant: the separation is not folded onto the shorter arc
angular_distance_no_fold(a, b) ==
    float_mod(Abs(fl(norm360(a) - norm360(b))), D(360))

\* variant: the difference is taken in one direction, neither made
\* absolute nor folded
angular_distance_directed(a, b) ==
    float_mod(fl(norm360(a) - norm360(b)), D(360))

angular_distance(a, b) ==
    LET d == float_mod(Abs(fl(norm360(a) - norm360(b))), D(360))
    IN  IF d <= D(180) THEN d ELSE fl(D(360) - d)

aspect_error(transit_lon, natal_lon, aspect_deg) ==
    fl(angular_distance(transit_lon, natal_lon) - aspect_deg)

\* variant: the comparison with the tolerance is strict
is_minute_exact_strict(error_deg, minute_tolerance_arcmin) ==
    Abs(error_deg) * 60 < Units(minute_tolerance_arcmin * 100)

\* abs(error_deg) <= minute_tolerance_arcmin / 60.0, with the tolerance in
\* 1/100 arcminute: 1/100 arcminute is 100/60 units, and both sides are
\* multiplied by 60
is_minute_exact(error_deg, minute_tolerance_arcmin) ==
    Abs(error_deg) * 60 <= Units(minute_tolerance_arcmin * 100)

-----------------------------------------------------------------------------
(* Data models *)

BodyPosition(longitude, speed) == [longitude |-> longitude, speed |-> speed]

TransitAspectHit(transit_body, natal_point, aspect, error_deg, applying, orb_used, minute_exact_required, minute_exact_passed, qualifies, within_orb, notes) ==
    [transit_body |-> transit_body,
     natal_point |-> natal_point,
     aspect_name |-> aspect.name,
     aspect_angle |-> aspect.angle,
     error_deg |-> error_deg,
     applying |-> applying,
     orb_used |-> orb_used,
     minute_exact_required |-> minute_exact_required,
     minute_exact_passed |-> minute_exact_passed,
     notes |-> notes,
     qualifies |-> qualifies,
     within_orb |-> within_orb]

-----------------------------------------------------------------------------
(* Strings: sect arrives as text and is normalised by lower().strip().     *)
(* A text is a sequence of one-character strings.                          *)

Upper == <<"A", "C", "D", "I", "L", "N", "O", "R", "T", "U">>

LowerOf == <<"a", "c", "d", "i", "l", "n", "o", "r", "t", "u">>

lower_char(c) ==
    IF \E i \in 1..Len(Upper) : Upper[i] = c
    THEN LowerOf[CHOOSE i \in 1..Len(Upper) : Upper[i] = c]
    ELSE c

lower(s) == [i \in 1..Len(s) |-> lower_char(s[i])]

\* the whitespace characters of the inputs
Whitespace == {" ", "\t", "\n"}

RECURSIVE lstrip(_)
lstrip(s) == IF s # <<>> /\ Head(s) \in Whitespace THEN lstrip(Tail(s)) ELSE s

RECURSIVE rstrip(_)
rstrip(s) ==
    IF s # <<>> /\ s[Len(s)] \in Whitespace
    THEN rstrip(SubSeq(s, 1, Len(s) - 1))
    ELSE s

strip(s) == rstrip(lstrip(s))

DIURNAL == <<"d", "i", "u", "r", "n", "a", "l">>

NOCTURNAL == <<"n", "o", "c", "t", "u", "r", "n", "a", "l">>

SIGNS ==
    <<"Aries", "Taurus", "Gemini", "Cancer", "Leo", "Virgo",
      "Libra", "Scorpio", "Sagittarius", "Capricorn", "Aquarius", "Pisces">>

\* the two characters of the format outside ASCII, by code point
DEGREE_SIGN == "U+00B0"

PRIME == "U+2032"

DigitChars == <<"0", "1", "2", "3", "4", "5", "6", "7", "8", "9">>

\* str(n) of a non-negative integer, as the sequence of its characters
RECURSIVE format_d(_)
format_d(n) ==
    IF n < 10 THEN <<DigitChars[n + 1]>>
    ELSE format_d(n \div 10) \o <<DigitChars[(n % 10) + 1]>>

\* the format specification 02d of a non-negative integer
format_02d(n) == IF n < 10 THEN <<"0">> \o format_d(n) ELSE format_d(n)

\* what a call returned, and what it raised
Returned(v) == [raised |-> "", value |-> v]

Raised(e, message) == [raised |-> e, value |-> None, message |-> message]

SECT_MESSAGE == "sect must be 'diurnal' or 'nocturnal'"

\* format_sign_degree: the characters of the string, the sign name as one
\* piece, or IndexError when SIGNS has no such index
format_sign_degree(deg_arg) ==
    LET deg == norm360(deg_arg)
        sign_index == deg \div D(30)
        deg_in_sign == fl(deg - sign_index * D(30))
        whole_deg == deg_in_sign \div D(1)
        minutes == fl((deg_in_sign - whole_deg * D(1)) * 60) \div D(1)
    IN  IF sign_index >= Len(SIGNS)
        THEN Raised("IndexError", "list index out of range")
        ELSE Returned(<<SIGNS[sign_index + 1], " ">> \o format_d(whole_deg)
                        \o <<DEGREE_SIGN>> \o format_02d(minutes) \o <<PRIME>>)

\* calc_part_of_fortune: the longitude of the Part of Fortune, or ValueError
calc_part_of_fortune(asc_lon, sun_lon, moon_lon, sect) ==
    LET s == strip(lower(sect))
        asc == norm360(asc_lon)
        sun == norm360(sun_lon)
        moon == norm360(moon_lon)
        pof == IF s = DIURNAL
               THEN fl(asc + fl(moon - sun))
               ELSE fl(asc + fl(sun - moon))
    IN  IF s \notin {DIURNAL, NOCTURNAL}
        THEN Raised("ValueError", SECT_MESSAGE)
        ELSE Returned(norm360(pof))

-----------------------------------------------------------------------------
(* Position maps from a chart response.  A chart is a record of two        *)
(* dicts, bodies (key -> [longitude, speed]) and angles (key -> longitude),*)
(* each a function on the keys it holds.                                   *)

\* float(...) of a number: the nearest float
float(x) == fl(x)

\* swiss_api key -> rule engine name, in insertion order
key_map ==
    << [key |-> "sun", name |-> "Sun"],
       [key |-> "moon", name |-> "Moon"],
       [key |-> "mercury", name |-> "Mercury"],
       [key |-> "venus", name |-> "Venus"],
       [key |-> "mars", name |-> "Mars"],
       [key |-> "jupiter", name |-> "Jupiter"],
       [key |-> "saturn", name |-> "Saturn"],
       [key |-> "uranus", name |-> "Uranus"],
       [key |-> "neptune", name |-> "Neptune"],
       [key |-> "pluto", name |-> "Pluto"],
       [key |-> "chiron", name |-> "Chiron"],
       [key |-> "north_node_mean", name |-> "North Node"] >>

\* the loop over key_map.items(): the entries of out, in insertion order
RECURSIVE bodies_loop(_, _)
bodies_loop(bodies, i) ==
    IF i > Len(key_map)
    THEN <<>>
    ELSE (IF key_map[i].key \in DOMAIN bodies
          THEN << [name |-> key_map[i].name,
                   pos |-> BodyPosition(float(bodies[key_map[i].key].longitude),
                                        bodies[key_map[i].key].speed)] >>
          ELSE <<>>)
            \o bodies_loop(bodies, i + 1)

\* out.get(name).longitude if name in out else None
longitude_of(out, name) ==
    IF \E i \in 1..Len(out) : out[i].name = name
    THEN Some(out[CHOOSE i \in 1..Len(out) : out[i].name = name].pos.longitude)
    ELSE None

SECT_REQUIRED_MESSAGE ==
    "sect is required to compute Part of Fortune ('diurnal' or 'nocturnal')"

POF_MESSAGE ==
    "Cannot compute Part of Fortune: need Ascendant, Sun, and Moon longitudes"

\* variant: a missing longitude leaves the map without Part of Fortune
\* instead of raising
build_positions_skip_pof(chart, sect, include_pof) ==
    LET out == bodies_loop(chart.bodies, 1)
                 \o (IF "asc" \in DOMAIN chart.angles
                     THEN <<[name |-> "Ascendant", pos |-> BodyPosition(float(chart.angles["asc"]), None)]>>
                     ELSE <<>>)
                 \o (IF "mc" \in DOMAIN chart.angles
                     THEN <<[name |-> "Midheaven", pos |-> BodyPosition(float(chart.angles["mc"]), None)]>>
                     ELSE <<>>)
        asc_lon == longitude_of(out, "Ascendant")
        sun_lon == longitude_of(out, "Sun")
        moon_lon == longitude_of(out, "Moon")
    IN  IF ~include_pof
        THEN Returned(out)
        ELSE IF sect = None
        THEN Raised("ValueError", SECT_REQUIRED_MESSAGE)
        ELSE IF strip(lower(sect[1])) \notin {DIURNAL, NOCTURNAL}
        THEN Raised("ValueError", SECT_MESSAGE)
        ELSE IF asc_lon = None \/ sun_lon = None \/ moon_lon = None
        THEN Returned(out)
        ELSE LET pof_lon == calc_part_of_fortune(asc_lon[1], sun_lon[1], moon_lon[1],
                                                 strip(lower(sect[1]))).value
             IN  Returned(out \o <<[name |-> "Part of Fortune",
                                    pos |-> BodyPosition(float(pof_lon), None)]>>)

\* build_positions_from_chart_response: the position map, or ValueError;
\* sect is None or Some(string)
build_positions_from_chart_response(chart, sect, include_pof) ==
    LET out == bodies_loop(chart.bodies, 1)
                 \o (IF "asc" \in DOMAIN chart.angles
                     THEN <<[name |-> "Ascendant", pos |-> BodyPosition(float(chart.angles["asc"]), None)]>>
                     ELSE <<>>)
                 \o (IF "mc" \in DOMAIN chart.angles
                     THEN <<[name |-> "Midheaven", pos |-> BodyPosition(float(chart.angles["mc"]), None)]>>
                     ELSE <<>>)
        asc_lon == longitude_of(out, "Ascendant")
        sun_lon == longitude_of(out, "Sun")
        moon_lon == longitude_of(out, "Moon")
    IN  IF ~include_pof
        THEN Returned(out)
        ELSE IF sect = None
        THEN Raised("ValueError", SECT_REQUIRED_MESSAGE)
        ELSE IF strip(lower(sect[1])) \notin {DIURNAL, NOCTURNAL}
        THEN Raised("ValueError", SECT_MESSAGE)
        ELSE IF asc_lon = None \/ sun_lon = None \/ moon_lon = None
        THEN Raised("ValueError", POF_MESSAGE)
        ELSE LET pof_lon == calc_part_of_fortune(asc_lon[1], sun_lon[1], moon_lon[1],
                                                 strip(lower(sect[1]))).value
             IN  Returned(out \o <<[name |-> "Part of Fortune",
                                    pos |-> BodyPosition(float(pof_lon), None)]>>)

-----------------------------------------------------------------------------
(* Rule engine *)

\* variant: the sect is compared as it was passed
engine_init_as_passed(sect, minute_tolerance_arcmin) ==
    IF sect \notin {DIURNAL, NOCTURNAL}
    THEN None
    ELSE Some([sect |-> IF sect = DIURNAL THEN "diurnal" ELSE "nocturnal",
               minute_tol |-> minute_tolerance_arcmin])

\* DailyTransitRuleEngine.__init__: the engine, or None when ValueError is
\* raised
engine_init(sect, minute_tolerance_arcmin) ==
    LET s == strip(lower(sect))
    IN  IF s \notin {DIURNAL, NOCTURNAL}
        THEN None
        ELSE Some([sect |-> IF s = DIURNAL THEN "diurnal" ELSE "nocturnal",
                   minute_tol |-> minute_tolerance_arcmin])

_eligible_transit_body(body) ==
    IF body \in TRANSIT_EXCLUDED THEN FALSE ELSE body \in TRANSIT_INCLUDED

\* variant: every natal key is eligible
_eligible_natal_point_always(point) == TRUE

_eligible_natal_point(point) == point \in NATAL_ELIGIBLE

\* variant: the outer-natal restriction is not applied
_outer_natal_receiving_allowed_always(transit_body, natal_point) == TRUE

_outer_natal_receiving_allowed(transit_body, natal_point) ==
    IF natal_point \in OUTER_NATAL
    THEN transit_body \in OUTER_NATAL_ALLOWED_TRANSITS
    ELSE TRUE

_minute_exact_required(transit_body) == transit_body \in MINUTE_EXACT_TRANSITS

\* variant: equal errors now and after the step count as separating
_applying_or_separating_tie_separating(transit_lon, transit_speed, natal_lon, aspect_angle) ==
    IF transit_speed = None
    THEN None
    ELSE LET err_now == Abs(aspect_error(transit_lon, natal_lon, aspect_angle))
             future_lon == norm360(fl(transit_lon + (transit_speed[1] \div 10)))
             err_future == Abs(aspect_error(future_lon, natal_lon, aspect_angle))
         IN  IF err_future < err_now THEN Some(TRUE) ELSE Some(FALSE)

\* step = 0.1 day; speeds of the model are multiples of 10 quarter units
\* per day
_applying_or_separating(transit_lon, transit_speed, natal_lon, aspect_angle) ==
    IF transit_speed = None
    THEN None
    ELSE LET err_now == Abs(aspect_error(transit_lon, natal_lon, aspect_angle))
             future_lon == norm360(fl(transit_lon + (transit_speed[1] \div 10)))
             err_future == Abs(aspect_error(future_lon, natal_lon, aspect_angle))
         IN  IF err_future < err_now THEN Some(TRUE)
             ELSE IF err_future > err_now THEN Some(FALSE)
             ELSE Some(TRUE)

\* variant: a hit of unknown motion gets the applying orb
_orb_for_non_exact_unknown_as_applying(transit_body, applying) ==
    IF transit_body \notin DOMAIN ORB_RULES
    THEN None
    ELSE LET app_orb == ORB_RULES[transit_body][1]
             sep_orb == ORB_RULES[transit_body][2]
         IN  IF applying = None
             THEN Some(app_orb)
             ELSE Some(IF applying[1] THEN app_orb ELSE sep_orb)

_orb_for_non_exact(transit_body, applying) ==
    IF transit_body \notin DOMAIN ORB_RULES
    THEN None
    ELSE LET app_orb == ORB_RULES[transit_body][1]
             sep_orb == ORB_RULES[transit_body][2]
         IN  IF applying = None
             THEN Some(Min(app_orb, sep_orb))
             ELSE Some(IF applying[1] THEN app_orb ELSE sep_orb)

\* variant of branch A: applying/separating and the orb are filled in as in
\* branch B, within_orb too
minute_exact_branch_as_orb(self, t, n, aspect, qualify) ==
    LET err == aspect_error(t.pos.longitude, n.pos.longitude, aspect.angle)
        abs_err == Abs(err)
        passed == is_minute_exact(abs_err, self.minute_tol)
        applying == _applying_or_separating(t.pos.longitude, t.pos.speed,
                                            n.pos.longitude, aspect.angle)
    IN  IF qualify /\ ~passed
        THEN <<>>
        ELSE << TransitAspectHit(t.name, n.name, aspect, err,
                   applying, Some(D(1)), TRUE, passed, passed, Some(passed),
                   IF passed THEN "minute-exact transit"
                   ELSE "minute-exact required (did not pass)") >>

\* branch A of the innermost loop of find_aspects (minute-exact group): the
\* hits (none or one) appended for one body, one natal point and one aspect
minute_exact_branch(self, t, n, aspect, qualify) ==
    LET err == aspect_error(t.pos.longitude, n.pos.longitude, aspect.angle)
        abs_err == Abs(err)
        passed == is_minute_exact(abs_err, self.minute_tol)
    IN  IF qualify /\ ~passed
        THEN <<>>
        ELSE << TransitAspectHit(t.name, n.name, aspect, err,
                   None, None, TRUE, passed, passed, None,
                   IF passed THEN "minute-exact transit"
                   ELSE "minute-exact required (did not pass)") >>

\* variant of branch B: within_orb is left unset on the hit
orb_branch_within_orb_unset(self, t, n, aspect, qualify) ==
    LET err == aspect_error(t.pos.longitude, n.pos.longitude, aspect.angle)
        abs_err == Abs(err)
        applying == _applying_or_separating(t.pos.longitude, t.pos.speed,
                                            n.pos.longitude, aspect.angle)
        orb == _orb_for_non_exact(t.name, applying)
    IN  IF orb = None
        THEN <<>>
        ELSE LET within_orb == abs_err <= orb[1]
             IN  IF qualify /\ ~within_orb
                 THEN <<>>
                 ELSE << TransitAspectHit(t.name, n.name, aspect, err,
                            applying, orb, FALSE, TRUE, within_orb, None,
                            IF within_orb THEN "within orb"
                            ELSE "outside orb") >>

\* branch B of the innermost loop of find_aspects (non-minute-exact group)
orb_branch(self, t, n, aspect, qualify) ==
    LET err == aspect_error(t.pos.longitude, n.pos.longitude, aspect.angle)
        abs_err == Abs(err)
        applying == _applying_or_separating(t.pos.longitude, t.pos.speed,
                                            n.pos.longitude, aspect.angle)
        orb == _orb_for_non_exact(t.name, applying)
    IN  IF orb = None
        THEN <<>>
        ELSE LET within_orb == abs_err <= orb[1]
                 qualifies_hit == within_orb
             IN  IF qualify /\ ~qualifies_hit
                 THEN <<>>
                 ELSE << TransitAspectHit(t.name, n.name, aspect, err,
                            applying, orb, FALSE, TRUE, qualifies_hit,
                            Some(within_orb),
                            IF within_orb THEN "within orb"
                            ELSE "outside orb") >>

\* the body of the innermost loop of find_aspects
aspect_hits(self, t, n, aspect, qualify) ==
    IF _minute_exact_required(t.name)
    THEN minute_exact_branch(self, t, n, aspect, qualify)
    ELSE orb_branch(self, t, n, aspect, qualify)

RECURSIVE aspects_loop(_, _, _, _, _)
aspects_loop(self, t, n, qualify, i) ==
    IF i > Len(ASPECTS_DEG)
    THEN <<>>
    ELSE aspect_hits(self, t, n, ASPECTS_DEG[i], qualify)
            \o aspects_loop(self, t, n, qualify, i + 1)

RECURSIVE natal_loop(_, _, _, _, _)
natal_loop(self, t, natal_items, qualify, j) ==
    IF j > Len(natal_items)
    THEN <<>>
    ELSE (IF ~_outer_natal_receiving_allowed(t.name, natal_items[j].name)
          THEN <<>>
          ELSE aspects_loop(self, t, natal_items[j], qualify, 1))
            \o natal_loop(self, t, natal_items, qualify, j + 1)

RECURSIVE transit_loop(_, _, _, _, _)
transit_loop(self, transit_items, natal_items, qualify, k) ==
    IF k > Len(transit_items)
    THEN <<>>
    ELSE natal_loop(self, transit_items[k], natal_items, qualify, 1)
            \o transit_loop(self, transit_items, natal_items, qualify, k + 1)

transit_eligible_entry(e) == _eligible_transit_body(e.name)

natal_eligible_entry(e) == _eligible_natal_point(e.name)

find_aspects(self, trs, nat, qualify) ==
    LET transit_items == SelectSeq(trs, transit_eligible_entry)
        natal_items == SelectSeq(nat, natal_eligible_entry)
    IN  transit_loop(self, transit_items, natal_items, qualify, 1)

-----------------------------------------------------------------------------
(* Mars dominance (diurnal) *)

\* the filter itself: hits of Mars, and hits to points Mars does not hit
dominance_filter(hits) ==
    LET dominated_points ==
            {hits[i].natal_point :
                i \in {j \in 1..Len(hits) : hits[j].transit_body = "Mars"}}
        keep(h) == (h.transit_body = "Mars")
                       \/ (h.natal_point \notin dominated_points)
    IN  SelectSeq(hits, keep)

\* variant: the sect test is the wrong way round
apply_mars_dominance_wrong_sect(toggle, sect, hits) ==
    IF ~toggle \/ sect = "diurnal" THEN hits ELSE dominance_filter(hits)

\* variant: the sect is not looked at
apply_mars_dominance_any_sect(toggle, sect, hits) ==
    IF ~toggle THEN hits ELSE dominance_filter(hits)

\* the toggle RULES.MARS_DOMINANCE_DIURNAL_ONLY and self.sect, which the
\* method reads, are parameters here
apply_mars_dominance(toggle, sect, hits) ==
    IF ~toggle \/ sect # "diurnal"
    THEN hits
    ELSE LET dominated_points ==
                 {hits[i].natal_point :
                     i \in {j \in 1..Len(hits) : hits[j].transit_body = "Mars"}}
             keep(h) == (h.transit_body = "Mars")
                            \/ (h.natal_point \notin dominated_points)
         IN  IF dominated_points = {}
             THEN hits
             ELSE SelectSeq(hits, keep)

-----------------------------------------------------------------------------
(* Ranking *)

\* the order of Python's str comparison on the names that occur
LexOrder ==
    <<"Ascendant", "Chiron", "Jupiter", "Mars", "Mercury", "Midheaven",
      "Moon", "Neptune", "North Node", "Part of Fortune", "Pluto", "Saturn",
      "South Node", "Sun", "Uranus", "Venus", "Vesta">>

StrRank(s) == CHOOSE i \in 1..Len(LexOrder) : LexOrder[i] = s

\* variant: the key stops at the absolute error, without the tie-break
key_no_tie_break(h) ==
    LET bucket == IF h.minute_exact_required THEN 3 ELSE 0
        app_rank == IF h.minute_exact_required THEN 0
                    ELSE IF h.applying = Some(TRUE) THEN 0
                    ELSE IF h.applying = None THEN 1 ELSE 2
    IN  <<bucket, app_rank, Abs(h.error_deg)>>

\* variant: tightness is compared before the bucket and the applying rank
key_tightness_first(h) ==
    LET bucket == IF h.minute_exact_required THEN 3 ELSE 0
        app_rank == IF h.minute_exact_required THEN 0
                    ELSE IF h.applying = Some(TRUE) THEN 0
                    ELSE IF h.applying = None THEN 1 ELSE 2
    IN  <<Abs(h.error_deg), bucket, app_rank, StrRank(h.transit_body),
          StrRank(h.natal_point), h.aspect_angle>>

\* the sort key of rank_hits, names replaced by their rank in str order
key(h) ==
    LET bucket == IF h.minute_exact_required THEN 3 ELSE 0
        app_rank == IF h.minute_exact_required THEN 0
                    ELSE IF h.applying = Some(TRUE) THEN 0
                    ELSE IF h.applying = None THEN 1 ELSE 2
    IN  <<bucket, app_rank, Abs(h.error_deg), StrRank(h.transit_body),
          StrRank(h.natal_point), h.aspect_angle>>

\* Python's tuple comparison a < b
RECURSIVE TupleLess(_, _, _)
TupleLess(a, b, i) ==
    IF i > Len(a) THEN FALSE
    ELSE IF a[i] < b[i] THEN TRUE
    ELSE IF a[i] > b[i] THEN FALSE
    ELSE TupleLess(a, b, i + 1)

\* sorted(hits, key=key): the key of each hit is computed once, and the sort
\* is stable: an element goes after every element that is not greater
RECURSIVE InsertSorted(_, _)
InsertSorted(sortedSeq, e) ==
    IF sortedSeq = <<>> THEN <<e>>
    ELSE IF TupleLess(e.k, Head(sortedSeq).k, 1) THEN <<e>> \o sortedSeq
    ELSE <<Head(sortedSeq)>> \o InsertSorted(Tail(sortedSeq), e)

RECURSIVE sorted(_, _)
sorted(keyed, n) ==
    IF n = 0 THEN <<>> ELSE InsertSorted(sorted(keyed, n - 1), keyed[n])

rank_hits(hits) ==
    LET keyed == [i \in 1..Len(hits) |-> [k |-> key(hits[i]), h |-> hits[i]]]
        ranked == sorted(keyed, Len(keyed))
    IN  [i \in 1..Len(ranked) |-> ranked[i].h]

-----------------------------------------------------------------------------
(* The two modes *)

qualifies_field(h) == h.qualifies

\* variant: dominance is computed on the raw candidates, before qualification
run_qualifying_dominance_first(self, trs, nat) ==
    LET hits == find_aspects(self, trs, nat, FALSE)
        kept == apply_mars_dominance(MARS_DOMINANCE_DIURNAL_ONLY, self.sect, hits)
    IN  rank_hits(SelectSeq(kept, qualifies_field))

\* variant: the candidates are not restricted to the qualifying ones
run_qualifying_unqualified(self, trs, nat) ==
    LET hits == find_aspects(self, trs, nat, FALSE)
        kept == apply_mars_dominance(MARS_DOMINANCE_DIURNAL_ONLY, self.sect, hits)
    IN  rank_hits(kept)

run_qualifying(self, trs, nat) ==
    LET hits == find_aspects(self, trs, nat, TRUE)
        kept == apply_mars_dominance(MARS_DOMINANCE_DIURNAL_ONLY, self.sect, hits)
    IN  rank_hits(kept)

\* variant: the "all" view is passed through the dominance filter too
run_all_with_dominance(self, trs, nat) ==
    LET hits == find_aspects(self, trs, nat, FALSE)
        kept == apply_mars_dominance(MARS_DOMINANCE_DIURNAL_ONLY, self.sect, hits)
    IN  rank_hits(kept)

run_all(self, trs, nat) ==
    LET hits == find_aspects(self, trs, nat, FALSE)
    IN  rank_hits(hits)

-----------------------------------------------------------------------------
(* Bounds and inputs of the model *)

\* the transit map holds at most MaxTransits entries; the natal map holds
\* any of the NatalNames
MaxTransits == 2

TransitNames == {"Mars", "Venus", "Saturn", "Moon"}

NatalNames == {"Sun", "Saturn"}

\* 9.7 and 10.1 degrees moving 1 degree/day, 10.0 degrees without a speed
TransitPositions ==
    { BodyPosition(Frac(9, 7000), Some(D(1))),
      BodyPosition(Frac(10, 1000), Some(D(1))),
      BodyPosition(D(10), None) }

\* the names of key_map, then the angles, in the order in which
\* build_positions_from_chart_response inserts them into the map it returns
KEY_MAP ==
    <<"Sun", "Moon", "Mercury", "Venus", "Mars", "Jupiter", "Saturn",
      "Uranus", "Neptune", "Pluto", "Chiron", "North Node",
      "Ascendant", "Midheaven">>

KeyIndex(name) == CHOOSE i \in 1..Len(KEY_MAP) : KEY_MAP[i] = name

\* name comes later in key_map than every key the map m holds
InsertedAfter(m, name) == \A k \in {m[i].name : i \in 1..Len(m)} : KeyIndex(k) < KeyIndex(name)

\* 10.0 degrees, and 191.5 degrees, 1.5 degrees past the opposition of 10.0
NatalPositions ==
    { BodyPosition(D(10), None),
      BodyPosition(Frac(191, 5000), None) }

\* "diurnal", " Nocturnal ", "\tDIURNAL\n", and the invalid "day", "" and
\* "di urnal"
SectInputs ==
    { DIURNAL,
      <<" ", "N", "o", "c", "t", "u", "r", "n", "a", "l", " ">>,
      <<"\t", "D", "I", "U", "R", "N", "A", "L", "\n">>,
      <<"d", "a", "y">>,
      <<>>,
      <<"d", "i", " ", "u", "r", "n", "a", "l">> }

ToleranceInputs == {MINUTE_TOL_ARCMIN}

Keys(m) == {m[i].name : i \in 1..Len(m)}

-----------------------------------------------------------------------------
(* The request: the position maps are built in key_map order, the engine   *)
(* is constructed, and run_qualifying and/or run_all are called on it      *)
(* (main.py, daily_transits).                                              *)

Init ==
    /\ engine = None
    /\ raised = ""
    /\ transits = <<>>
    /\ natal = <<>>
    /\ mode = "none"
    /\ result = <<>>
    /\ call = None
    /\ ret = None

\* out[name] = BodyPosition(...) while the natal map is built
PutNatal(name, pos) ==
    /\ engine = None /\ raised = ""
    /\ transits = <<>>
    /\ InsertedAfter(natal, name)
    /\ natal' = Append(natal, [name |-> name, pos |-> pos])
    /\ UNCHANGED <<engine, raised, transits, mode, result, call, ret>>

\* out[name] = BodyPosition(...) while the transit map is built
PutTransit(name, pos) ==
    /\ engine = None /\ raised = ""
    /\ Len(transits) < MaxTransits
    /\ InsertedAfter(transits, name)
    /\ transits' = Append(transits, [name |-> name, pos |-> pos])
    /\ UNCHANGED <<engine, raised, natal, mode, result, call, ret>>

\* engine = DailyTransitRuleEngine(sect=..., minute_tolerance_arcmin=...)
Construct(sect, tol) ==
    /\ engine = None /\ raised = ""
    /\ engine' = engine_init(sect, tol)
    /\ raised' = IF engine_init(sect, tol) = None THEN "ValueError" ELSE ""
    /\ UNCHANGED <<transits, natal, mode, result, call, ret>>

RunQualifying ==
    /\ engine # None
    /\ mode # "qualifying"
    /\ result' = run_qualifying(engine[1], transits, natal)
    /\ mode' = "qualifying"
    /\ UNCHANGED <<engine, raised, transits, natal, call, ret>>

RunAll ==
    /\ engine # None
    /\ mode # "all"
    /\ result' = run_all(engine[1], transits, natal)
    /\ mode' = "all"
    /\ UNCHANGED <<engine, raised, transits, natal, call, ret>>

Next ==
    \/ \E name \in NatalNames, pos \in NatalPositions : PutNatal(name, pos)
    \/ \E name \in TransitNames, pos \in TransitPositions : PutTransit(name, pos)
    \/ \E sect \in SectInputs, tol \in ToleranceInputs : Construct(sect, tol)
    \/ RunQualifying
    \/ RunAll

Spec == Init /\ [][Next]_vars

-----------------------------------------------------------------------------
(* Calls of the module's functions on fine-grained arguments.  The        *)
(* initial state holds one call, the function and its arguments; the       *)
(* function's action makes the call.                                       *)

\* the call of fn has not been made yet
Pending(fn) == call # None /\ ret = None /\ call[1].fn = fn

\* tolerances in hundredths of an arcminute: 1.00', the default, 2.00'
FnTolerances == {100, MINUTE_TOL_ARCMIN, 200}

\* a minute-exact body, an orb body, an excluded body and a key that is in
\* neither set
FnTransitNames == {"Saturn", "Sun", "Moon", "Vesta"}

\* an eligible natal point and a key that is not eligible
FnNatalNames == {"Ascendant", "South Node"}

\* distances from an exact aspect, in 1/10000 degree: around the tolerances
\* 1.00' = 0.01667, 1.59' = 0.0265 and 2.00' = 0.03333 degree, and around
\* the orbs of 1 and 2 degrees
FnOffsets ==
    {0, 166, 167, 264, 265, 266, 333, 334, 10000, 10001, 20000, 20001}

\* the natal point is at 100 degrees
FnNatalLon == D(100)

\* longitudes on either side of base degrees
FnLonsNear(base) ==
    {D(base) + Units(o) : o \in FnOffsets} \cup {D(base) - Units(o) : o \in FnOffsets}

\* no speed, no motion, a motion too small to change the longitude, one
\* degree a day direct and retrograde
FnSpeeds == {None, Some(0), Some(10), Some(D(1)), Some(-D(1))}

\* Saturn near the conjunction of the natal point, the Sun near its square
\* with every speed, and the two ineligible keys on the natal point
FnTransits ==
    {[name |-> "Saturn", pos |-> BodyPosition(lon, None)] : lon \in FnLonsNear(100)} \cup
    {[name |-> "Sun", pos |-> BodyPosition(lon, speed)] : lon \in FnLonsNear(10), speed \in FnSpeeds} \cup
    {[name |-> tname, pos |-> BodyPosition(FnNatalLon, None)] : tname \in FnTransitNames}

FnNatal == {[name |-> nname, pos |-> BodyPosition(FnNatalLon, None)] : nname \in FnNatalNames}

\* the transiting keys that are not eligible, on the natal point
FnIneligibleTransits ==
    {[name |-> tname, pos |-> BodyPosition(FnNatalLon, None)] :
        tname \in {"Moon", "South Node", "Vesta"}}

\* the natal maps holding both natal keys, in either order
FnNatalMaps == {m \in FnNatal \X FnNatal : m[1] # m[2]}

\* the request in one step: the two maps, the engine constructed and run in
\* one mode
Request ==
    /\ Pending("run_qualifying") \/ Pending("run_all")
    /\ transits' = call[1].transits
    /\ natal' = call[1].natal
    /\ engine' = engine_init(call[1].sect, call[1].tol)
    /\ raised' = IF engine' = None THEN "ValueError" ELSE ""
    /\ IF engine' = None
       THEN /\ ret' = Raised("ValueError", SECT_MESSAGE)
            /\ UNCHANGED <<mode, result>>
       ELSE /\ mode' = IF call[1].fn = "run_qualifying" THEN "qualifying" ELSE "all"
            /\ result' = IF call[1].fn = "run_qualifying"
                         THEN run_qualifying(engine'[1], transits', natal')
                         ELSE run_all(engine'[1], transits', natal')
            /\ ret' = Returned(result')
    /\ UNCHANGED call

\* the call record of a request
RequestCall(sect, tol, trs, nat, fn) ==
    Some([fn |-> fn, sect |-> sect, tol |-> tol, transits |-> trs, natal |-> nat])

\* longitudes as a caller may pass them: below zero by less and by more
\* than the rounding step, zero, just above zero, inside the circle, just
\* below 360, 360 and more than two turns
FnLons ==
    {-D(10), -Units(1), -1, 0, 1, D(10), D(350), Frac(359, 9999), D(360), D(730)}

\* a call of calc_part_of_fortune
CallPartOfFortune ==
    /\ Pending("calc_part_of_fortune")
    /\ ret' = calc_part_of_fortune(call[1].asc_lon, call[1].sun_lon,
                                   call[1].moon_lon, call[1].sect)
    /\ UNCHANGED <<call, engine, raised, transits, natal, mode, result>>

\* the chart keys of the calls: three bodies of key_map, one key that is
\* not in key_map, and the two angles
FnBodyKeys == {"sun", "moon", "saturn", "vesta"}

FnAngleKeys == {"asc", "mc"}

\* the value of a body key: the Sun's longitude is not a float of the model
\* before float() is applied, Saturn has a speed
FnBody(k) ==
    [longitude |-> IF k = "sun" THEN D(10) + 1
                   ELSE IF k = "moon" THEN D(30) ELSE D(100),
     speed |-> IF k = "saturn" THEN Some(-Units(300)) ELSE None]

FnAngle(k) == IF k = "asc" THEN D(350) ELSE D(260)

\* the charts holding any of the body keys and any of the angle keys
FnCharts ==
    {[bodies |-> [k \in K |-> FnBody(k)], angles |-> [k \in A |-> FnAngle(k)]] :
        K \in SUBSET FnBodyKeys, A \in SUBSET FnAngleKeys}

\* the sect argument: None or a string
FnSectArgs == {None} \cup {Some(sect) : sect \in SectInputs}

\* a call of build_positions_from_chart_response
CallBuildPositions ==
    /\ Pending("build_positions_from_chart_response")
    /\ ret' = build_positions_from_chart_response(call[1].chart, call[1].sect,
                                                  call[1].include_pof)
    /\ UNCHANGED <<call, engine, raised, transits, natal, mode, result>>

\* a call of angular_distance
CallAngularDistance ==
    /\ Pending("angular_distance")
    /\ ret' = Returned(angular_distance(call[1].a, call[1].b))
    /\ UNCHANGED <<call, engine, raised, transits, natal, mode, result>>

\* a call of norm360 (daily_transits.py)
CallNorm360 ==
    /\ Pending("norm360")
    /\ ret' = Returned(norm360(call[1].x))
    /\ UNCHANGED <<call, engine, raised, transits, natal, mode, result>>

\* a call of norm360 (math_utils.py)
CallMathUtilsNorm360 ==
    /\ Pending("math_utils.norm360")
    /\ ret' = Returned(math_utils_norm360(call[1].x))
    /\ UNCHANGED <<call, engine, raised, transits, natal, mode, result>>

\* the longitudes formatted: those of FnLons, 14 degrees 6.996 and 7.002
\* minutes, the last float below 30 degrees, 30 degrees, and 44 degrees 30
\* minutes
FnFormatLons ==
    FnLons \cup {Frac(14, 1166), Frac(14, 1167), Frac(29, 9999), D(30), Frac(44, 5000)}

\* a call of format_sign_degree
CallFormatSignDegree ==
    /\ Pending("format_sign_degree")
    /\ ret' = format_sign_degree(call[1].deg)
    /\ UNCHANGED <<call, engine, raised, transits, natal, mode, result>>

\* the calls the initial states are drawn from
InitCall ==
    \/ \E deg \in FnFormatLons : call = Some([fn |-> "format_sign_degree", deg |-> deg])
    \/ \E x \in FnLons : call = Some([fn |-> "norm360", x |-> x])
    \/ \E x \in FnLons : call = Some([fn |-> "math_utils.norm360", x |-> x])
    \/ \E a \in FnLons, b \in FnLons : call = Some([fn |-> "angular_distance", a |-> a, b |-> b])
    \/ \E chart \in FnCharts, sect \in FnSectArgs, include_pof \in BOOLEAN :
            call = Some([fn |-> "build_positions_from_chart_response", chart |-> chart,
                         sect |-> sect, include_pof |-> include_pof])
    \/ \E asc_lon \in FnLons, sun_lon \in FnLons, moon_lon \in FnLons, sect \in SectInputs :
            call = Some([fn |-> "calc_part_of_fortune", asc_lon |-> asc_lon,
                         sun_lon |-> sun_lon, moon_lon |-> moon_lon, sect |-> sect])
    \/ \E sect \in SectInputs, tol \in FnTolerances, t \in FnTransits,
          n \in FnNatal, fn \in {"run_qualifying", "run_all"} :
            call = RequestCall(sect, tol, <<t>>, <<n>>, fn)
    \/ \E sect \in {DIURNAL, NOCTURNAL}, t \in FnTransits, u \in FnIneligibleTransits,
          n \in FnNatalMaps, fn \in {"run_qualifying", "run_all"} :
            \/ call = RequestCall(sect, MINUTE_TOL_ARCMIN, <<t, u>>, n, fn)
            \/ call = RequestCall(sect, MINUTE_TOL_ARCMIN, <<u, t>>, n, fn)

InitFn ==
    /\ engine = None
    /\ raised = ""
    /\ transits = <<>>
    /\ natal = <<>>
    /\ mode = "none"
    /\ result = <<>>
    /\ ret = None
    /\ InitCall

NextFn ==
    \/ CallFormatSignDegree
    \/ CallNorm360
    \/ CallMathUtilsNorm360
    \/ CallAngularDistance
    \/ CallBuildPositions
    \/ CallPartOfFortune
    \/ Request

SpecFn == InitFn /\ [][NextFn]_vars

-----------------------------------------------------------------------------
(* Properties *)

HitSet(hits) == {hits[i] : i \in 1..Len(hits)}

\* the engine of the request, and what find_aspects yields for its maps
Self == engine[1]

Qualified == find_aspects(Self, transits, natal, TRUE)

Candidates == find_aspects(Self, transits, natal, FALSE)

MarsPoints(hits) == {h.natal_point : h \in {g \in HitSet(hits) : g.transit_body = "Mars"}}

\* C1: with a diurnal engine, the list returned by run_qualifying holds no
\* hit of a body other than Mars to a natal point that receives a qualifying
\* Mars hit, and holds every qualifying Mars hit that find_aspects found.
C1_DiurnalDominance ==
    (mode = "qualifying" /\ Self.sect = "diurnal") =>
        /\ \A h \in HitSet(result) :
              ~(h.transit_body # "Mars" /\ h.natal_point \in MarsPoints(Qualified))
        /\ \A h \in HitSet(Qualified) :
              h.transit_body = "Mars" => h \in HitSet(result)

\* a diurnal run in which Mars and a minute-exact body both qualify to the
\* same natal point: the Mars hit is returned, the other is not
C1_Witness ==
    /\ mode = "qualifying" /\ Self.sect = "diurnal"
    /\ \E m, h \in HitSet(Qualified) :
          /\ m.transit_body = "Mars"
          /\ h.transit_body # "Mars"
          /\ h.minute_exact_required
          /\ h.natal_point = m.natal_point
          /\ m \in HitSet(result)
          /\ h \notin HitSet(result)

\* C2: apply_mars_dominance returns its input unchanged when the sect is
\* nocturnal, or the toggle is off, or no hit of the list is a Mars hit; a
\* nocturnal run_qualifying keeps every qualified hit, Mars's and the others'.
C2_DominancePassThrough ==
    mode = "qualifying" =>
        /\ apply_mars_dominance(FALSE, Self.sect, Qualified) = Qualified
        /\ Self.sect = "nocturnal" =>
              /\ apply_mars_dominance(MARS_DOMINANCE_DIURNAL_ONLY, "nocturnal",
                                      Qualified) = Qualified
              /\ HitSet(result) = HitSet(Qualified)
              /\ Len(result) = Len(Qualified)
        /\ MarsPoints(Qualified) = {} =>
              /\ apply_mars_dominance(MARS_DOMINANCE_DIURNAL_ONLY, Self.sect,
                                      Qualified) = Qualified
              /\ HitSet(result) = HitSet(Qualified)

C2_Witness ==
    /\ mode = "qualifying" /\ Self.sect = "nocturnal"
    /\ \E m, h \in HitSet(result) :
          /\ m.transit_body = "Mars"
          /\ h.transit_body = "Venus"
          /\ h.natal_point = m.natal_point

\* C3: in run_qualifying a natal point is dominated only by a Mars hit that
\* passed qualification (|error| <= the orb selected for Mars): a qualified
\* hit of another body is missing from the result only if such a Mars hit to
\* its natal point exists, so a Mars candidate outside its orb, or an absent
\* Mars, removes nothing.
C3_DominanceAfterQualification ==
    mode = "qualifying" =>
        \A h \in HitSet(Qualified) :
            (h.transit_body # "Mars" /\ h \notin HitSet(result)) =>
                \E m \in HitSet(Candidates) :
                    /\ m.transit_body = "Mars"
                    /\ m.natal_point = h.natal_point
                    /\ m.orb_used # None
                    /\ Abs(m.error_deg) <= m.orb_used[1]

\* a diurnal run where Mars is in the transit map and every Mars candidate
\* to some natal point is outside its orb, while another body's qualified
\* hit to that point is returned
C3_Witness ==
    /\ mode = "qualifying" /\ Self.sect = "diurnal"
    /\ \E h \in HitSet(result) :
          /\ h.transit_body # "Mars"
          /\ \E m \in HitSet(Candidates) :
                m.transit_body = "Mars" /\ m.natal_point = h.natal_point
          /\ \A m \in HitSet(Candidates) :
                (m.transit_body = "Mars" /\ m.natal_point = h.natal_point)
                    => ~m.qualifies

\* the three eligibility gates, on the names of a transit and a natal entry
PassesGates(body, point) ==
    /\ body \notin {"Moon", "South Node"}
    /\ body \in {"Sun", "Mercury", "Venus", "Mars", "Jupiter", "Saturn",
                 "Uranus", "Neptune", "Pluto", "Chiron", "North Node"}
    /\ point \in {"Sun", "Moon", "Mercury", "Venus", "Mars", "Jupiter",
                  "Saturn", "Uranus", "Neptune", "Pluto", "Chiron",
                  "North Node", "Ascendant", "Midheaven", "Part of Fortune"}
    /\ (point \in {"Saturn", "Uranus", "Neptune", "Pluto"}
           => body \in {"Sun", "Mercury", "Venus", "Mars", "Jupiter"})

GatePairs ==
    {pr \in Keys(transits) \X Keys(natal) : PassesGates(pr[1], pr[2])}

AspectNames == {ASPECTS_DEG[i].name : i \in 1..Len(ASPECTS_DEG)}

OtherSect(sect) == IF sect = "diurnal" THEN "nocturnal" ELSE "diurnal"

\* C4: run_all returns exactly one hit for each (transiting body, natal
\* point, aspect) that passes the three gates, six per gate-passing pair and
\* none for any other pair, qualifying or not, and returns the same list for
\* a diurnal and a nocturnal engine.
C4_RunAllKeepsEveryHit ==
    mode = "all" =>
        /\ \A pr \in GatePairs : \A a \in AspectNames :
              Cardinality({i \in 1..Len(result) :
                               /\ result[i].transit_body = pr[1]
                               /\ result[i].natal_point = pr[2]
                               /\ result[i].aspect_name = a}) = 1
        /\ Len(result) = 6 * Cardinality(GatePairs)
        /\ \A h \in HitSet(result) : <<h.transit_body, h.natal_point>> \in GatePairs
        /\ result = run_all([Self EXCEPT !.sect = OtherSect(Self.sect)],
                            transits, natal)

\* a diurnal run_all whose result holds a qualifying Mars hit, a qualifying
\* hit of another body to the same natal point, and a hit that does not
\* qualify
C4_Witness ==
    /\ mode = "all" /\ Self.sect = "diurnal"
    /\ \E m, h, f \in HitSet(result) :
          /\ m.transit_body = "Mars" /\ m.qualifies
          /\ h.transit_body # "Mars" /\ h.qualifies
          /\ h.natal_point = m.natal_point
          /\ ~f.qualifies

AppRank(h) ==
    IF h.applying = Some(TRUE) THEN 0 ELSE IF h.applying = None THEN 1 ELSE 2

\* C5: the returned list is in ascending order of the composite key: no
\* minute-exact hit precedes an orb-regime hit; among orb-regime hits
\* applying precedes unknown precedes separating; within equal bucket and
\* applying rank the absolute error does not decrease.
C5_RankedByCompositeKey ==
    mode # "none" =>
        \A i, j \in 1..Len(result) :
            i < j =>
                LET a == result[i]
                    b == result[j]
                IN  /\ ~(a.minute_exact_required /\ ~b.minute_exact_required)
                    /\ (~a.minute_exact_required /\ ~b.minute_exact_required)
                          => AppRank(a) <= AppRank(b)
                    /\ (~a.minute_exact_required /\ ~b.minute_exact_required
                            /\ AppRank(a) = AppRank(b))
                          => Abs(a.error_deg) <= Abs(b.error_deg)
                    /\ (a.minute_exact_required /\ b.minute_exact_required)
                          => Abs(a.error_deg) <= Abs(b.error_deg)

\* an applying hit with error 0.3 ranked before a separating hit with error
\* 0.1
C5_Witness ==
    /\ mode = "qualifying"
    /\ \E i, j \in 1..Len(result) :
          /\ i < j
          /\ result[i].applying = Some(TRUE)
          /\ Abs(result[i].error_deg) = Frac(0, 3000)
          /\ result[j].applying = Some(FALSE)
          /\ Abs(result[j].error_deg) = Frac(0, 1000)

Perms(seq) ==
    {[i \in 1..Len(seq) |-> seq[p[i]]] : p \in Permutations(1..Len(seq))}

SameRankAndError(a, b) ==
    /\ a.minute_exact_required = b.minute_exact_required
    /\ (~a.minute_exact_required => AppRank(a) = AppRank(b))
    /\ Abs(a.error_deg) = Abs(b.error_deg)

\* C6: hits with equal bucket, applying rank and absolute error are ordered
\* by transiting body name, then natal point name, then aspect angle, and
\* for every ordering of the entries of the transit map and of the natal map
\* run_qualifying, and likewise run_all, returns the same sequence.
C6_DeterministicTotalOrder ==
    mode # "none" =>
        /\ \A i, j \in 1..Len(result) :
              (i < j /\ SameRankAndError(result[i], result[j])) =>
                  TupleLess(<<StrRank(result[i].transit_body),
                              StrRank(result[i].natal_point),
                              result[i].aspect_angle>>,
                            <<StrRank(result[j].transit_body),
                              StrRank(result[j].natal_point),
                              result[j].aspect_angle>>, 1)
        /\ \A pt \in Perms(transits) : \A pn \in Perms(natal) :
              result = IF mode = "qualifying"
                       THEN run_qualifying(Self, pt, pn)
                       ELSE run_all(Self, pt, pn)

\* two hits of equal rank and error stand in the result in the opposite of
\* the order in which find_aspects appended them
C6_Witness ==
    /\ mode = "qualifying"
    /\ Len(transits) = 2 /\ Len(natal) = 2
    /\ \E i, j \in 1..Len(Qualified) :
          /\ i < j
          /\ SameRankAndError(Qualified[i], Qualified[j])
          /\ \E k, l \in 1..Len(result) :
                k < l /\ result[k] = Qualified[j] /\ result[l] = Qualified[i]

\* C7: in both modes no returned hit has its natal point in {Saturn, Uranus,
\* Neptune, Pluto} and its transiting body outside {Sun, Mercury, Venus,
\* Mars, Jupiter}; transiting Saturn never hits natal Saturn.
C7_OuterNatalRestriction ==
    mode # "none" =>
        \A h \in HitSet(result) :
            ~(/\ h.natal_point \in {"Saturn", "Uranus", "Neptune", "Pluto"}
              /\ h.transit_body \notin {"Sun", "Mercury", "Venus", "Mars", "Jupiter"})

\* transiting Saturn stands exactly on natal Saturn (error 0 for the
\* conjunction), and the result holds hits, of Saturn and to natal Saturn
C7_Witness ==
    /\ mode # "none"
    /\ \E t \in HitSet(transits), n \in HitSet(natal) :
          /\ t.name = "Saturn" /\ n.name = "Saturn"
          /\ t.pos.longitude = n.pos.longitude
    /\ \E h \in HitSet(result) : h.transit_body = "Saturn"
    /\ \E h \in HitSet(result) : h.natal_point = "Saturn"

SpeedOf(body) ==
    (CHOOSE t \in HitSet(transits) : t.name = body).pos.speed

\* C8: every hit of a minute-exact transiting body has applying unknown and
\* orb_used unset, in both modes, with or without a speed.
C8_MinuteExactHasNoApplyingNoOrb ==
    mode # "none" =>
        \A h \in HitSet(result) :
            h.transit_body \in {"Saturn", "Uranus", "Neptune", "Pluto",
                                "Chiron", "North Node"}
                => (h.applying = None /\ h.orb_used = None)

\* a hit of transiting Saturn whose position carries a speed, next to a hit
\* of an orb-regime body for which applying was computed
C8_Witness ==
    /\ mode # "none"
    /\ \E h, o \in HitSet(result) :
          /\ h.transit_body = "Saturn" /\ SpeedOf("Saturn") # None
          /\ o.transit_body # "Saturn" /\ o.applying # None

\* C9 as stated: the error of every hit, in qualifying and in "all" mode, is
\* in the half-open interval (-180, 180], never -180.
C9_ErrorInHalfOpenInterval ==
    mode # "none" =>
        \A h \in HitSet(result) :
            -D(180) < h.error_deg /\ h.error_deg <= D(180)

\* C9, amended: the error of every hit is in the closed interval
\* [-180, 180], and it is -180 only for the opposition (aspect angle 180).
C9_ErrorInClosedInterval ==
    mode # "none" =>
        \A h \in HitSet(result) :
            /\ -D(180) <= h.error_deg /\ h.error_deg <= D(180)
            /\ h.error_deg = -D(180) =>
                  (h.aspect_name = "opposition" /\ h.aspect_angle = D(180))

\* run_all returns a hit whose error is exactly -180: the opposition of a
\* transiting body and a natal point at the same longitude
C9_Witness ==
    /\ mode = "all"
    /\ \E h \in HitSet(result) :
          /\ h.error_deg = -D(180)
          /\ \E t \in HitSet(transits), n \in HitSet(natal) :
                /\ t.name = h.transit_body /\ n.name = h.natal_point
                /\ t.pos.longitude = n.pos.longitude

\* C10: within_orb is set exactly on the hits of the orb regime
\* (minute_exact_required false); those have orb_used set and qualifies equal
\* to within_orb; minute-exact hits have within_orb unset and qualifies equal
\* to minute_exact_passed.
C10_WithinOrbIffOrbRegime ==
    mode # "none" =>
        \A h \in HitSet(result) :
            /\ (h.within_orb # None) <=> ~h.minute_exact_required
            /\ ~h.minute_exact_required =>
                  (h.orb_used # None /\ h.qualifies = h.within_orb[1])
            /\ h.minute_exact_required =>
                  (h.within_orb = None /\ h.qualifies = h.minute_exact_passed)

\* a result with hits of both regimes, qualifying and not
C10_Witness ==
    /\ mode = "all"
    /\ \E a, b, c, d \in HitSet(result) :
          /\ ~a.minute_exact_required /\ a.qualifies
          /\ ~b.minute_exact_required /\ ~b.qualifies
          /\ c.minute_exact_required /\ c.qualifies
          /\ d.minute_exact_required /\ ~d.qualifies

-----------------------------------------------------------------------------
(* Properties of the single calls (SpecFn) *)

\* a request was made and the engine was constructed
Ran == call # None /\ engine # None

\* the hits returned for one aspect
HitsOfAspect(a) == {h \in HitSet(result) : h.aspect_name = a.name}

\* the error of the request's pair for an aspect, from the geometry alone
PairError(a) ==
    aspect_error(transits[1].pos.longitude, natal[1].pos.longitude, a.angle)

\* |error| <= tol / 60 with tol in hundredths of an arcminute
WithinArcmin(err, tol) == Abs(err) * 60 <= Units(tol * 100)

AspectsSet == {ASPECTS_DEG[i] : i \in 1..Len(ASPECTS_DEG)}

\* C11: for a minute-exact body on an eligible natal point, an aspect
\* qualifies exactly when |error| <= tolerance / 60 degrees, the tolerance
\* being the one passed at construction: run_qualifying returns the hit
\* exactly then, and run_all returns it with qualifies set exactly then.
\* With the default 1.59' an error of 0.0265 degree qualifies and an error
\* of 0.0266 degree does not.
C11_MinuteExactTolerance ==
    (Ran /\ transits[1].name \in MINUTE_EXACT_TRANSITS
         /\ natal[1].name = "Ascendant") =>
        \A a \in AspectsSet :
            LET ok == WithinArcmin(PairError(a), call[1].tol)
            IN  /\ Self.minute_tol = call[1].tol
                /\ mode = "qualifying" =>
                      /\ (HitsOfAspect(a) # {}) <=> ok
                      /\ \A h \in HitsOfAspect(a) : h.qualifies
                /\ mode = "all" =>
                      /\ HitsOfAspect(a) # {}
                      /\ \A h \in HitsOfAspect(a) :
                            /\ h.error_deg = PairError(a)
                            /\ h.qualifies <=> ok
                /\ (call[1].tol = MINUTE_TOL_ARCMIN
                        /\ Abs(PairError(a)) = Frac(0, 265)) => ok
                /\ (call[1].tol = MINUTE_TOL_ARCMIN
                        /\ Abs(PairError(a)) = Frac(0, 266)) => ~ok

\* Saturn 0.0265 degree from the conjunction is returned by run_qualifying
\* under the default tolerance
C11_Witness ==
    /\ Ran /\ mode = "qualifying"
    /\ call[1].tol = MINUTE_TOL_ARCMIN
    /\ \E h \in HitSet(result) :
          /\ h.transit_body = "Saturn"
          /\ Abs(h.error_deg) = Frac(0, 265)
          /\ h.qualifies

\* the sect string as the specification normalises it: trimmed, then
\* lower-cased
Normalized(sect) == lower(strip(sect))

\* C12: constructing the engine with a sect yields an engine exactly when
\* the trimmed, lower-cased sect is 'diurnal' or 'nocturnal', and the engine
\* stores that normalised value; with any other string ValueError is raised
\* and there is no engine, and then no run is made and no hit is produced.
C12_SectValidation ==
    /\ [](raised = "ValueError" => (engine = None /\ mode = "none" /\ result = <<>>))
    /\ [](engine # None => (raised = "" /\ Self.sect \in {"diurnal", "nocturnal"}))
    /\ [][\A sect \in SectInputs, tol \in ToleranceInputs :
            Construct(sect, tol) =>
                /\ Normalized(sect) = DIURNAL =>
                      engine' = Some([sect |-> "diurnal", minute_tol |-> tol])
                /\ Normalized(sect) = NOCTURNAL =>
                      engine' = Some([sect |-> "nocturnal", minute_tol |-> tol])
                /\ Normalized(sect) \notin {DIURNAL, NOCTURNAL} =>
                      (engine' = None /\ raised' = "ValueError")]_vars

\* the constructor has raised on an invalid sect after both maps were built
C12_Witness ==
    /\ raised = "ValueError"
    /\ engine = None
    /\ transits # <<>> /\ natal # <<>>

\* the entries of a map whose key the rule table makes eligible
EligibleTransits(m) ==
    SelectSeq(m, LAMBDA e : e.name \in TRANSIT_INCLUDED \ TRANSIT_EXCLUDED)

EligibleNatal(m) == SelectSeq(m, LAMBDA e : e.name \in NATAL_ELIGIBLE)

\* C13: in both modes an excluded transiting key (Moon, South Node), a
\* transiting key outside the included set and a natal key outside the
\* natal-eligible set contribute no hit and raise no error: the run returns
\* what it returns for the maps without these entries, nothing when no
\* eligible pair is left, and every returned hit has an included, not
\* excluded transiting body and an eligible natal point.
C13_IneligibleKeysSkipped ==
    Ran =>
        /\ raised = ""
        /\ ret = Returned(result)
        /\ \A h \in HitSet(result) :
              /\ h.transit_body \in TRANSIT_INCLUDED \ TRANSIT_EXCLUDED
              /\ h.natal_point \in NATAL_ELIGIBLE
        /\ mode = "qualifying" =>
              result = run_qualifying(Self, EligibleTransits(transits), EligibleNatal(natal))
        /\ mode = "all" =>
              result = run_all(Self, EligibleTransits(transits), EligibleNatal(natal))
        /\ (EligibleTransits(transits) = <<>> \/ EligibleNatal(natal) = <<>>) =>
              result = <<>>
        /\ (mode = "all" /\ EligibleTransits(transits) # <<>>
                         /\ EligibleNatal(natal) # <<>>) => result # <<>>

\* run_all on a map holding the Moon before the Sun, and a natal map holding
\* South Node before the Ascendant, returns the hits of the Sun to the
\* Ascendant
C13_Witness ==
    /\ Ran /\ mode = "all"
    /\ Len(transits) = 2 /\ transits[1].name = "Moon" /\ transits[2].name = "Sun"
    /\ Len(natal) = 2 /\ natal[1].name = "South Node"
    /\ result # <<>>
    /\ \A h \in HitSet(result) : h.transit_body = "Sun" /\ h.natal_point = "Ascendant"

\* the function a call was made of
Called(fn) == call # None /\ ret # None /\ call[1].fn = fn

\* C14: calc_part_of_fortune returns normalize(Asc + (Moon - Sun)) for a
\* diurnal and normalize(Asc + (Sun - Moon)) for a nocturnal sect, a value
\* that is always at least 0 and below 360, and raises ValueError without a
\* value for any other sect.
C14_PartOfFortuneInRange ==
    Called("calc_part_of_fortune") =>
        LET asc == norm360(call[1].asc_lon)
            sun == norm360(call[1].sun_lon)
            moon == norm360(call[1].moon_lon)
            sect == Normalized(call[1].sect)
        IN  /\ sect = DIURNAL =>
                  /\ ret = Returned(norm360(fl(asc + fl(moon - sun))))
                  /\ 0 <= ret.value /\ ret.value < D(360)
            /\ sect = NOCTURNAL =>
                  /\ ret = Returned(norm360(fl(asc + fl(sun - moon))))
                  /\ 0 <= ret.value /\ ret.value < D(360)
            /\ sect \notin {DIURNAL, NOCTURNAL} =>
                  (ret.raised = "ValueError" /\ ret.value = None)

\* C15: with include_pof = True, build_positions_from_chart_response raises
\* ValueError with one of its three messages, and returns no map, whenever
\* the chart lacks the Ascendant, the Sun or the Moon, or the sect is None
\* or not 'diurnal'/'nocturnal' once normalised; otherwise it returns a map
\* whose last entry is 'Part of Fortune'.  With include_pof = False it
\* always returns a map, and the map has no 'Part of Fortune' entry.
C15_PartOfFortuneInputsRequired ==
    Called("build_positions_from_chart_response") =>
        LET chart == call[1].chart
            sect_ok == /\ call[1].sect # None
                       /\ Normalized(call[1].sect[1]) \in {DIURNAL, NOCTURNAL}
            complete == /\ "asc" \in DOMAIN chart.angles
                        /\ "sun" \in DOMAIN chart.bodies
                        /\ "moon" \in DOMAIN chart.bodies
        IN  /\ (call[1].include_pof /\ ~(sect_ok /\ complete)) =>
                  /\ ret.raised = "ValueError"
                  /\ ret.value = None
                  /\ ret.message \in {SECT_REQUIRED_MESSAGE, SECT_MESSAGE, POF_MESSAGE}
                  /\ (sect_ok /\ ~complete) => ret.message = POF_MESSAGE
            /\ (call[1].include_pof /\ sect_ok /\ complete) =>
                  /\ ret.raised = ""
                  /\ "Part of Fortune" \in Keys(ret.value)
            /\ ~call[1].include_pof =>
                  /\ ret.raised = ""
                  /\ "Part of Fortune" \notin Keys(ret.value)
                  /\ Len(ret.value) =
                        Cardinality((DOMAIN chart.bodies \ {"vesta"}) \cup DOMAIN chart.angles)

\* a chart with the Ascendant and the Moon but without the Sun, a valid
\* sect, include_pof = True: ValueError names the missing longitudes
C15_Witness ==
    /\ Called("build_positions_from_chart_response")
    /\ call[1].include_pof
    /\ call[1].sect = Some(DIURNAL)
    /\ DOMAIN call[1].chart.bodies = {"moon"}
    /\ DOMAIN call[1].chart.angles = {"asc"}
    /\ ret = Raised("ValueError", POF_MESSAGE)

\* C16: angular_distance(a, b) equals angular_distance(b, a) and is at
\* least 0 and at most 180, also for arguments that are negative or outside
\* one revolution.
C16_DistanceSymmetricInRange ==
    Called("angular_distance") =>
        /\ ret.raised = ""
        /\ ret.value = angular_distance(call[1].b, call[1].a)
        /\ 0 <= ret.value /\ ret.value <= D(180)

\* -10 degrees and 730 degrees are 20 degrees apart
C16_Witness ==
    /\ Called("angular_distance")
    /\ call[1].a = -D(10) /\ call[1].b = D(730)
    /\ ret.value = D(20)

\* C17: norm360 returns a value that is at least 0 and below 360, never
\* 360 itself, and that norm360 maps to itself, for every argument; the
\* same for norm360 of math_utils.py.
C17_Norm360IdempotentInRange ==
    /\ Called("norm360") =>
          /\ 0 <= ret.value /\ ret.value < D(360)
          /\ norm360(ret.value) = ret.value
    /\ Called("math_utils.norm360") =>
          /\ 0 <= ret.value /\ ret.value < D(360)
          /\ math_utils_norm360(ret.value) = ret.value

\* C18: for every longitude format_sign_degree returns the string made of
\* the sign SIGNS[floor(norm360(lon) / 30)], one of the twelve, the whole
\* degree within the sign, from 0 to 29, and the minute floor(fraction * 60),
\* from 0 to 59, in two digits.
C18_FormatTruncates ==
    Called("format_sign_degree") =>
        LET lon == norm360(call[1].deg)
            sign == lon \div D(30)
            degree == (lon - sign * D(30)) \div D(1)
            minute == ((lon - sign * D(30) - degree * D(1)) * 60) \div D(1)
        IN  /\ ret.raised = ""
            /\ sign \in 0..11 /\ degree \in 0..29 /\ minute \in 0..59
            /\ ret.value = <<SIGNS[sign + 1], " ">> \o format_d(degree)
                               \o <<DEGREE_SIGN>> \o format_02d(minute) \o <<PRIME>>

\* the hits of the bodies that are not minute-exact
OrbHits == {h \in HitSet(result) : h.transit_body \notin MINUTE_EXACT_TRANSITS}

\* the speed the request gave a transiting body
TransitSpeed(body) ==
    transits[CHOOSE i \in 1..Len(transits) : transits[i].name = body].pos.speed

\* C19: a hit of the orb regime carries the applying orb of its body when
\* it is applying, the separating orb when it is separating, and the smaller
\* of the two when its motion is unknown, which is exactly when the body has
\* no speed; within_orb is set, and is true exactly when |error| <= that
\* orb; the hit qualifies exactly then, so a hit of unknown motion never
\* qualifies with an error above the tighter orb.
C19_OrbByMotion ==
    Ran =>
        \A h \in OrbHits :
            LET app_orb == ORB_RULES[h.transit_body][1]
                sep_orb == ORB_RULES[h.transit_body][2]
                tighter == IF app_orb <= sep_orb THEN app_orb ELSE sep_orb
            IN  /\ h.applying = Some(TRUE) => h.orb_used = Some(app_orb)
                /\ h.applying = Some(FALSE) => h.orb_used = Some(sep_orb)
                /\ h.applying = None => h.orb_used = Some(tighter)
                /\ (h.applying = None) <=> (TransitSpeed(h.transit_body) = None)
                /\ h.within_orb = Some(Abs(h.error_deg) <= h.orb_used[1])
                /\ h.qualifies = h.within_orb[1]
                /\ (h.applying = None /\ h.qualifies) => Abs(h.error_deg) <= tighter
                /\ mode = "qualifying" => h.qualifies

\* run_all returns a hit of the Sun without speed, 1.0001 degree from the
\* square: the orb is the separating orb of 1 degree and the hit does not
\* qualify
C19_Witness ==
    /\ Ran /\ mode = "all"
    /\ \E h \in OrbHits :
          /\ h.transit_body = "Sun"
          /\ h.applying = None
          /\ Abs(h.error_deg) = Frac(1, 1)
          /\ h.orb_used = Some(D(1))
          /\ ~h.qualifies

\* the longitude of the request's transiting body after 0.1 day: a tenth of
\* the speed is added, and the sum is normalised
Projected == norm360(fl(transits[1].pos.longitude + transits[1].pos.speed[1] \div 10))

\* C20: the motion of a hit of the orb regime comes from the forward
\* difference alone: unknown (None) when the body has no speed; otherwise
\* applying when |error| at the longitude projected by speed * 0.1 day is
\* strictly smaller than |error| now, separating when it is strictly larger,
\* applying when the two are equal.  The Sun at 10.0 with speed 1.0 and the
\* natal Ascendant at 100.0 give the square with error 0, which qualifies
\* with within_orb true and is separating.
C20_ForwardDifference ==
    (Ran /\ Len(transits) = 1 /\ Len(natal) = 1) =>
        /\ \A h \in OrbHits :
              LET a == [name |-> h.aspect_name, angle |-> h.aspect_angle]
                  now == Abs(PairError(a))
                  later == Abs(aspect_error(Projected, natal[1].pos.longitude, a.angle))
              IN  IF transits[1].pos.speed = None
                  THEN h.applying = None
                  ELSE /\ later < now => h.applying = Some(TRUE)
                       /\ later > now => h.applying = Some(FALSE)
                       /\ later = now => h.applying = Some(TRUE)
        /\ (/\ transits[1] = [name |-> "Sun", pos |-> BodyPosition(D(10), Some(D(1)))]
            /\ natal[1] = [name |-> "Ascendant", pos |-> BodyPosition(D(100), None)]) =>
              \E h \in HitSet(result) :
                  /\ h.aspect_name = "square"
                  /\ h.error_deg = 0
                  /\ h.qualifies
                  /\ h.within_orb = Some(TRUE)
                  /\ h.applying = Some(FALSE)

\* run_qualifying returns the exact square of the Sun at 10.0, speed 1.0,
\* to the Ascendant at 100.0, as separating
C20_Witness ==
    /\ Ran /\ mode = "qualifying"
    /\ transits = <<[name |-> "Sun", pos |-> BodyPosition(D(10), Some(D(1)))]>>
    /\ natal = <<[name |-> "Ascendant", pos |-> BodyPosition(D(100), None)]>>
    /\ Len(result) = 1
    /\ result[1].aspect_name = "square"
    /\ result[1].error_deg = 0
    /\ result[1].applying = Some(FALSE)
    /\ result[1].orb_used = Some(D(1))

\* the three values of applying
Motions == {None, Some(TRUE), Some(FALSE)}

\* C21: the rule table puts every included transiting body in exactly one
\* of the two regimes: no body is both minute-exact and in ORB_RULES, every
\* body of TRANSIT_INCLUDED is in one of them, and no included body is
\* excluded.  So a body that passes the transiting-body gate and is not
\* minute-exact always gets an orb, whatever its motion, and run_all returns
\* hits for every pair that passes the gates.
C21_RegimePartition ==
    /\ MINUTE_EXACT_TRANSITS \cap DOMAIN ORB_RULES = {}
    /\ \A b \in TRANSIT_INCLUDED :
          (b \in MINUTE_EXACT_TRANSITS) # (b \in DOMAIN ORB_RULES)
    /\ TRANSIT_INCLUDED \cap TRANSIT_EXCLUDED = {}
    /\ \A b \in TRANSIT_INCLUDED \cup TRANSIT_EXCLUDED \cup DOMAIN ORB_RULES
                \cup MINUTE_EXACT_TRANSITS :
          (_eligible_transit_body(b) /\ ~_minute_exact_required(b)) =>
              \A applying \in Motions : _orb_for_non_exact(b, applying) # None
    /\ mode = "all" =>
          \A pr \in GatePairs :
              \E h \in HitSet(result) :
                  /\ h.transit_body = pr[1] /\ h.natal_point = pr[2]
                  /\ h.minute_exact_required <=> (h.orb_used = None)

\* run_all on a transit map holding Mars and Saturn returns hits of Mars
\* with an orb and hits of Saturn without one
C21_Witness ==
    /\ mode = "all"
    /\ Keys(transits) = {"Mars", "Saturn"}
    /\ \E h \in HitSet(result) : h.transit_body = "Mars" /\ h.orb_used # None
    /\ \E h \in HitSet(result) : h.transit_body = "Saturn" /\ h.orb_used = None

\* what the two modes return for the engine and the maps of the request
QualifyingView == run_qualifying(Self, transits, natal)

AllView == run_all(Self, transits, natal)

\* C22: for either sect every hit returned by run_qualifying has qualifies
\* true and is, with all its fields, one of the hits run_all returns for the
\* same engine and maps; for a nocturnal engine run_qualifying returns
\* exactly the hits of run_all that qualify, in the order run_all has them.
C22_QualifyingWithinAll ==
    /\ mode = "qualifying" =>
          /\ \A h \in HitSet(result) : h.qualifies /\ h \in HitSet(AllView)
          /\ Self.sect = "nocturnal" =>
                result = SelectSeq(AllView, LAMBDA h : h.qualifies)
    /\ mode = "all" =>
          /\ \A h \in HitSet(QualifyingView) : h.qualifies /\ h \in HitSet(result)
          /\ Self.sect = "nocturnal" =>
                QualifyingView = SelectSeq(result, LAMBDA h : h.qualifies)

\* a nocturnal run_qualifying that returns two or more hits, while run_all
\* returns these and hits that do not qualify
C22_Witness ==
    /\ mode = "qualifying"
    /\ Self.sect = "nocturnal"
    /\ Len(result) >= 2
    /\ \E h \in HitSet(AllView) : ~h.qualifies
    /\ result = SelectSeq(AllView, LAMBDA h : h.qualifies)

\* the indices of two different hits of the result for the same transiting
\* body and natal point
SamePairTwice ==
    {ij \in (1..Len(result)) \X (1..Len(result)) :
        /\ ij[1] # ij[2]
        /\ result[ij[1]].transit_body = result[ij[2]].transit_body
        /\ result[ij[1]].natal_point = result[ij[2]].natal_point}

\* C23: the aspect angles are at least 30 degrees apart, the widest orb is
\* 2.5 degrees and the default tolerance of 1.59 arcminutes is narrower
\* still, so in the result of run_qualifying no two hits have the same
\* transiting body and natal point: for a body of the orb regime always,
\* for a minute-exact body when the engine has the default tolerance.
C23_OneAspectPerPair ==
    /\ \A i \in 1..Len(ASPECTS_DEG), j \in 1..Len(ASPECTS_DEG) :
          i # j => Abs(ASPECTS_DEG[i].angle - ASPECTS_DEG[j].angle) >= D(30)
    /\ \A b \in DOMAIN ORB_RULES :
          ORB_RULES[b][1] <= Frac(2, 5000) /\ ORB_RULES[b][2] <= Frac(2, 5000)
    /\ Units(MINUTE_TOL_ARCMIN * 100) <= 60 * Frac(2, 5000)
    /\ mode = "qualifying" =>
          \A ij \in SamePairTwice :
              /\ result[ij[1]].minute_exact_required
              /\ Self.minute_tol # MINUTE_TOL_ARCMIN

\* run_qualifying returns a hit of Mars and a hit of Saturn, one hit for
\* each of their pairs
C23_Witness ==
    /\ mode = "qualifying"
    /\ \E h \in HitSet(result) : h.transit_body = "Mars"
    /\ \E h \in HitSet(result) : h.transit_body = "Saturn"
    /\ SamePairTwice = {}
====
